---------------------------- MODULE Spec2Model ----------------------------
(***************************************************************************)
(* namer (src/src/app/page.tsx): the Home component's state, its event     *)
(* handlers, the prefix builder and the export routine.                    *)
(*                                                                         *)
(* A JavaScript string is a sequence of one-character strings, so that     *)
(* trim, lastIndexOf, substring and concatenation are computed, not        *)
(* assumed.  A File is a record [id, name, payload].                       *)
(***************************************************************************)
EXTENDS Integers, Sequences, FiniteSets

VARIABLES
    files,          \* useState<FileItem[]>            (line 29)
    year,           \* useState(currentYear.toString()) (line 30)
    month,          \* useState(currentMonth)           (line 31)
    day,            \* useState(currentDay)             (line 32)
    includeDay,     \* useState(false)                  (line 33)
    senderName,     \* useState("")                     (line 34)
    includeSender,  \* useState(false)                  (line 35)
    pending,        \* downloadFiles invocations suspended on zip.generateAsync
    downloads,      \* the downloadBlob calls made so far, in order
    rejected,       \* ids of the invocations whose promise was rejected
    calls,          \* number of downloadFiles invocations so far
    last,           \* the handler or continuation that ran last
    events          \* number of UI events processed so far

dateVars   == <<year, month, day, includeDay, senderName, includeSender>>
exportVars == <<pending, downloads, rejected, calls>>
vars       == <<files, dateVars, exportVars, last, events>>

---------------------------------------------------------------------------
(* Bounds.                                                                 *)

MaxEvents   == 5    \* UI events in one session
MaxFiles    == 3    \* entries in the list
MaxNameLen  == 5    \* characters of a dropped file's name   (SpecNames)
MaxLabelLen == 2    \* characters of a receiver/sender label (SpecPrefix)

---------------------------------------------------------------------------
(* Strings.                                                                *)

Empty      == << >>

\* The characters String.prototype.trim strips: ECMAScript WhiteSpace and
\* LineTerminator.  A character that cannot be written in a string here is
\* named by its code point.
Whitespace ==
    {"\t", "\n", "U+000B", "\f", "\r", " ", "U+00A0", "U+1680",
     "U+2000", "U+2001", "U+2002", "U+2003", "U+2004", "U+2005", "U+2006",
     "U+2007", "U+2008", "U+2009", "U+200A", "U+2028", "U+2029", "U+202F",
     "U+205F", "U+3000", "U+FEFF"}

StringsUpTo(alphabet, n) == UNION {[1..k -> alphabet] : k \in 0..n}

\* String.prototype.lastIndexOf(ch): 0-based index of the last ch, or -1.
RECURSIVE lastIndexOfFrom(_, _, _)
lastIndexOfFrom(s, ch, k) ==
    IF k = 0 THEN -1
    ELSE IF s[k] = ch THEN k - 1
    ELSE lastIndexOfFrom(s, ch, k - 1)

lastIndexOf(s, ch) == lastIndexOfFrom(s, ch, Len(s))

\* String.prototype.substring(start, end): 0-based, end exclusive.
substring(s, start, end) == SubSeq(s, start + 1, end)

\* String.prototype.trim(): strip whitespace at both ends.
RECURSIVE trimStart(_)
trimStart(s) ==
    IF s # Empty /\ Head(s) \in Whitespace THEN trimStart(Tail(s)) ELSE s

RECURSIVE trimEnd(_)
trimEnd(s) ==
    IF s # Empty /\ s[Len(s)] \in Whitespace
    THEN trimEnd(SubSeq(s, 1, Len(s) - 1))
    ELSE s

trim(s) == trimEnd(trimStart(s))

---------------------------------------------------------------------------
(* getExtension / getBaseName (lines 13-21).                               *)

\* Variant of getExtension that cuts at the first dot (indexOf).
getExtensionFirstDot(filename) ==
    LET RECURSIVE first(_)
        first(k) == IF k > Len(filename) THEN -1
                    ELSE IF filename[k] = "." THEN k - 1
                    ELSE first(k + 1)
        dot == first(1)
    IN  IF dot # -1 THEN substring(filename, dot, Len(filename)) ELSE Empty

getExtension(filename) ==
    LET lastDot == lastIndexOf(filename, ".")
    IN  IF lastDot # -1 THEN substring(filename, lastDot, Len(filename))
        ELSE Empty

getBaseName(filename) ==
    LET lastDot == lastIndexOf(filename, ".")
    IN  IF lastDot # -1 THEN substring(filename, 0, lastDot) ELSE filename


---------------------------------------------------------------------------
(* Literals and the small input sets the handlers draw from.               *)

Str_          == <<"_">>
StrNamer_     == <<"n", "a", "m", "e", "r", "_">>
StrFilesZip   == <<"f", "i", "l", "e", "s", ".", "z", "i", "p">>

\* new Date() at construction: 2024-03-07 (lines 24-27).
currentYear   == <<"2", "0", "2", "4">>
currentMonth  == <<"0", "3">>
currentDay    == <<"0", "7">>

\* Options of the three selects (lines 56-62), two of each.
years         == {currentYear, <<"2", "0", "2", "5">>}
months        == {currentMonth, <<"1", "2">>}
days          == {currentDay, <<"3", "1">>}

\* Files the user can drop or pick.
FileA         == [id |-> 1, name |-> <<"a", ".", "b">>, payload |-> "dataA"]
FileB         == [id |-> 2, name |-> <<"a">>,           payload |-> "dataB"]
FileObjs      == {FileA, FileB}
FileLists     == {<<f>> : f \in FileObjs} \cup {<<FileA, FileB>>}

\* Text the user can type into an entry's name field, an entry's receiver
\* field and the sender field.
BaseNameInputs == {<<"a">>, <<"a", ".", "b">>}
ReceiverInputs == {Empty, <<"r", " ">>}
SenderInputs   == {Empty, <<" ">>, <<"s">>}

\* Inputs of the pure-function specifications.
NameAlphabet  == {"a", "."}
LabelAlphabet == {"r", " ", "\t"}
\* Labels with whitespace at both ends, of several kinds, and inside.
PaddedLabels  == {<<" ", "r", " ">>, <<"\t", "r", "\n">>,
                  <<"U+3000", "r", "U+3000">>, <<"U+3000">>,
                  <<"r", " ", "r">>}
AnyNames      == StringsUpTo(NameAlphabet, MaxNameLen)
AnyLabels     == StringsUpTo(LabelAlphabet, MaxLabelLen) \cup PaddedLabels
AnyFiles      == {[id |-> 0, name |-> n, payload |-> "data"] : n \in AnyNames}

---------------------------------------------------------------------------
(* The render scope: the values a render's closures (buildPrefix, prefix,  *)
(* downloadFiles) see (lines 29-35).                                       *)

scope ==
    [files |-> files, year |-> year, month |-> month, day |-> day,
     includeDay |-> includeDay, senderName |-> senderName,
     includeSender |-> includeSender]

(* buildPrefix (lines 39-52), evaluated in render scope s.                 *)

\* Variant of buildPrefix that never trims.
buildPrefixUntrimmed(s, receiverName) ==
    LET p1 == IF receiverName # Empty
              THEN receiverName \o Str_ ELSE Empty
        p2 == p1 \o s.year \o Str_ \o s.month \o Str_
        p3 == IF s.includeDay THEN p2 \o s.day \o Str_ ELSE p2
        p4 == IF s.includeSender /\ s.senderName # Empty
              THEN p3 \o s.senderName \o Str_ ELSE p3
    IN  p4

buildPrefix(s, receiverName) ==
    LET p1 == IF trim(receiverName) # Empty
              THEN trim(receiverName) \o Str_ ELSE Empty
        p2 == p1 \o s.year \o Str_ \o s.month \o Str_
        p3 == IF s.includeDay THEN p2 \o s.day \o Str_ ELSE p2
        p4 == IF s.includeSender /\ trim(s.senderName) # Empty
              THEN p3 \o trim(s.senderName) \o Str_ ELSE p3
    IN  p4

\* const prefix = buildPrefix()  (line 54): the default argument is "".
prefix(s) == buildPrefix(s, Empty)

\* filePrefix + file.newBaseName + file.extension (lines 138-139, 144-145).
newName(s, file) ==
    buildPrefix(s, file.receiverName) \o file.newBaseName \o file.extension

---------------------------------------------------------------------------
(* Entry list handlers (lines 64-120).                                     *)

\* The FileItem handleFiles builds for one File (lines 65-70).
fileItem(file) ==
    [original     |-> file,
     newBaseName  |-> getBaseName(file.name),
     extension    |-> getExtension(file.name),
     receiverName |-> Empty]

handleFiles(newFiles) ==
    /\ files' = files \o [i \in 1..Len(newFiles) |-> fileItem(newFiles[i])]
    /\ last' = [op |-> "handleFiles", arg |-> Len(newFiles)]
    /\ UNCHANGED <<dateVars, exportVars>>

\* Variant of updateFileName that re-derives base name and extension from
\* the typed text.
updateFileNameReparse(index, newName_) ==
    /\ files' = [i \in 1..Len(files) |->
                    IF i = index
                    THEN [files[i] EXCEPT !.newBaseName = getBaseName(newName_),
                                          !.extension = getExtension(newName_)]
                    ELSE files[i]]
    /\ last' = [op |-> "updateFileName", arg |-> index]
    /\ UNCHANGED <<dateVars, exportVars>>

updateFileName(index, newName_) ==
    /\ files' = [i \in 1..Len(files) |->
                    IF i = index
                    THEN [files[i] EXCEPT !.newBaseName = newName_]
                    ELSE files[i]]
    /\ last' = [op |-> "updateFileName", arg |-> index]
    /\ UNCHANGED <<dateVars, exportVars>>

updateReceiverName(index, newReceiverName) ==
    /\ files' = [i \in 1..Len(files) |->
                    IF i = index
                    THEN [files[i] EXCEPT !.receiverName = newReceiverName]
                    ELSE files[i]]
    /\ last' = [op |-> "updateReceiverName", arg |-> index]
    /\ UNCHANGED <<dateVars, exportVars>>

\* prev.filter((_, i) => i !== index), indices counted from 1 here.
RECURSIVE filterIndex(_, _, _)
filterIndex(prev, index, i) ==
    IF i > Len(prev) THEN Empty
    ELSE IF i # index THEN <<prev[i]>> \o filterIndex(prev, index, i + 1)
    ELSE filterIndex(prev, index, i + 1)

\* Variant of removeFile that drops the entry and all that follow
\* (splice without a delete count).
removeFileSplice(index) ==
    /\ files' = SubSeq(files, 1, index - 1)
    /\ last' = [op |-> "removeFile", arg |-> index]
    /\ UNCHANGED <<dateVars, exportVars>>

removeFile(index) ==
    /\ files' = filterIndex(files, index, 1)
    /\ last' = [op |-> "removeFile", arg |-> index]
    /\ UNCHANGED <<dateVars, exportVars>>

clearFiles ==
    /\ files' = Empty
    /\ last' = [op |-> "clearFiles", arg |-> 0]
    /\ UNCHANGED <<dateVars, exportVars>>

---------------------------------------------------------------------------
(* Date configuration setters (lines 200, 212, 230, 239, 259, 268).        *)

setYear(v) ==
    /\ year' = v
    /\ last' = [op |-> "setYear", arg |-> 0]
    /\ UNCHANGED <<files, month, day, includeDay, senderName, includeSender,
                   exportVars>>

setMonth(v) ==
    /\ month' = v
    /\ last' = [op |-> "setMonth", arg |-> 0]
    /\ UNCHANGED <<files, year, day, includeDay, senderName, includeSender,
                   exportVars>>

setDay(v) ==
    /\ day' = v
    /\ last' = [op |-> "setDay", arg |-> 0]
    /\ UNCHANGED <<files, year, month, includeDay, senderName, includeSender,
                   exportVars>>

setIncludeDay(v) ==
    /\ includeDay' = v
    /\ last' = [op |-> "setIncludeDay", arg |-> 0]
    /\ UNCHANGED <<files, year, month, day, senderName, includeSender,
                   exportVars>>

setSenderName(v) ==
    /\ senderName' = v
    /\ last' = [op |-> "setSenderName", arg |-> 0]
    /\ UNCHANGED <<files, year, month, day, includeDay, includeSender,
                   exportVars>>

setIncludeSender(v) ==
    /\ includeSender' = v
    /\ last' = [op |-> "setIncludeSender", arg |-> 0]
    /\ UNCHANGED <<files, year, month, day, includeDay, senderName,
                   exportVars>>

---------------------------------------------------------------------------
(* Export: downloadFiles (lines 122-151).                                  *)

\* downloadBlob(blob, filename) (lines 125-134): one save-to-disk request.
\* inv is the downloadFiles invocation that made the call; kind tells a
\* File blob from a serialized archive.
downloadBlob(inv, kind, blob, filename) ==
    Append(downloads,
           [inv |-> inv, kind |-> kind, blob |-> blob, filename |-> filename])

\* zip.file(name, data) (line 146): the archive maps a path to its data,
\* and a path written twice keeps the last data.
\* Variant of zipFile in which a path written twice keeps the first data.
zipFileKeepFirst(zip, name, data) ==
    [n \in DOMAIN zip \cup {name} |->
        IF n \in DOMAIN zip THEN zip[n] ELSE data]

zipFile(zip, name, data) ==
    [n \in DOMAIN zip \cup {name} |-> IF n = name THEN data ELSE zip[n]]

\* new JSZip() (line 142): no entries.
newZip == [n \in {} |-> FileA]

\* for (const file of files) { ... zip.file(newName, file.original) }
\* (lines 143-147), from entry i on.
RECURSIVE zipFiles(_, _, _)
zipFiles(s, i, zip) ==
    IF i > Len(s.files) THEN zip
    ELSE zipFiles(s, i + 1,
                  zipFile(zip, newName(s, s.files[i]), s.files[i].original))

RemoveAt(seq, k) == SubSeq(seq, 1, k - 1) \o SubSeq(seq, k + 1, Len(seq))

\* Variant of downloadFiles whose single-entry branch names the download
\* with the shared prefix, ignoring the entry's receiver.
downloadFilesSharedPrefix ==
    LET s  == scope
        id == calls + 1
    IN  /\ calls' = id
        /\ last' = [op |-> "downloadFiles", arg |-> id]
        /\ IF Len(s.files) = 0
           THEN UNCHANGED <<pending, downloads>>
           ELSE IF Len(s.files) = 1
           THEN /\ downloads' = downloadBlob(id, "file", s.files[1].original,
                                    prefix(s) \o s.files[1].newBaseName
                                              \o s.files[1].extension)
                /\ pending' = pending
           ELSE /\ pending' = Append(pending,
                                [id |-> id, scope |-> s,
                                 zip |-> zipFiles(s, 1, newZip)])
                /\ downloads' = downloads
        /\ UNCHANGED <<files, dateVars, rejected>>

\* Variant of downloadFiles that empties the list once the export started.
downloadFilesAndClear ==
    LET s  == scope
        id == calls + 1
    IN  /\ calls' = id
        /\ last' = [op |-> "downloadFiles", arg |-> id]
        /\ IF Len(s.files) = 0
           THEN UNCHANGED <<pending, downloads>>
           ELSE IF Len(s.files) = 1
           THEN /\ downloads' = downloadBlob(id, "file", s.files[1].original,
                                             newName(s, s.files[1]))
                /\ pending' = pending
           ELSE /\ pending' = Append(pending,
                                [id |-> id, scope |-> s,
                                 zip |-> zipFiles(s, 1, newZip)])
                /\ downloads' = downloads
        /\ files' = Empty
        /\ UNCHANGED <<dateVars, rejected>>

\* The synchronous part: everything up to the await of line 148.  The
\* invocation runs in the scope of the render whose handler was clicked.
downloadFiles ==
    LET s  == scope
        id == calls + 1
    IN  /\ calls' = id
        /\ last' = [op |-> "downloadFiles", arg |-> id]
        /\ IF Len(s.files) = 0
           THEN UNCHANGED <<pending, downloads>>
           ELSE IF Len(s.files) = 1
           THEN /\ downloads' = downloadBlob(id, "file", s.files[1].original,
                                             newName(s, s.files[1]))
                /\ pending' = pending
           ELSE /\ pending' = Append(pending,
                                [id |-> id, scope |-> s,
                                 zip |-> zipFiles(s, 1, newZip)])
                /\ downloads' = downloads
        /\ UNCHANGED <<files, dateVars, rejected>>

\* Variant of generateAsyncResolved that builds the prefix from the state at
\* resumption instead of the invocation's scope.
generateAsyncResolvedLatePrefix(k) ==
    LET p == pending[k]
    IN  /\ downloads' = downloadBlob(p.id, "zip", p.zip,
                            StrNamer_ \o prefix(scope) \o StrFilesZip)
        /\ pending' = RemoveAt(pending, k)
        /\ last' = [op |-> "resolved", arg |-> p.id]
        /\ UNCHANGED <<files, dateVars, rejected, calls>>

\* zip.generateAsync resolves for the k-th suspended invocation, which
\* resumes at line 149 with the zip and the prefix of its own scope.
generateAsyncResolved(k) ==
    LET p == pending[k]
    IN  /\ downloads' = downloadBlob(p.id, "zip", p.zip,
                            StrNamer_ \o prefix(p.scope) \o StrFilesZip)
        /\ pending' = RemoveAt(pending, k)
        /\ last' = [op |-> "resolved", arg |-> p.id]
        /\ UNCHANGED <<files, dateVars, rejected, calls>>

\* Variant of generateAsyncRejected that still triggers a download, as a
\* try/finally around the await would.
generateAsyncRejectedFinally(k) ==
    LET p == pending[k]
    IN  /\ downloads' = downloadBlob(p.id, "zip", newZip,
                            StrNamer_ \o prefix(p.scope) \o StrFilesZip)
        /\ pending' = RemoveAt(pending, k)
        /\ rejected' = rejected \cup {p.id}
        /\ last' = [op |-> "rejected", arg |-> p.id]
        /\ UNCHANGED <<files, dateVars, calls>>

\* zip.generateAsync rejects for the k-th suspended invocation: the await
\* of line 148 throws, nothing catches it, line 149 never runs.
generateAsyncRejected(k) ==
    LET p == pending[k]
    IN  /\ pending' = RemoveAt(pending, k)
        /\ rejected' = rejected \cup {p.id}
        /\ last' = [op |-> "rejected", arg |-> p.id]
        /\ UNCHANGED <<files, dateVars, downloads, calls>>

---------------------------------------------------------------------------
(* The component as a state machine.                                       *)

Init ==
    /\ files = Empty
    /\ year = currentYear
    /\ month = currentMonth
    /\ day = currentDay
    /\ includeDay = FALSE
    /\ senderName = Empty
    /\ includeSender = FALSE
    /\ pending = Empty
    /\ downloads = Empty
    /\ rejected = {}
    /\ calls = 0
    /\ last = [op |-> "init", arg |-> 0]
    /\ events = 0

\* One UI event is processed.
Tick == events < MaxEvents /\ events' = events + 1

\* The controls a render offers: an entry's fields and remove button exist
\* per entry (lines 290-332), the day select only with includeDay (235),
\* the sender field only with includeSender (264), the clear button only
\* with entries (338), and the download button is disabled without entries
\* (348).  A control's change event carries a new value.
Next ==
    \/ \E newFiles \in FileLists :
          Len(files) + Len(newFiles) <= MaxFiles /\ Tick /\ handleFiles(newFiles)
    \/ \E i \in 1..Len(files) :
          \E v \in BaseNameInputs \ {files[i].newBaseName} :
              Tick /\ updateFileName(i, v)
    \/ \E i \in 1..Len(files) :
          \E v \in ReceiverInputs \ {files[i].receiverName} :
              Tick /\ updateReceiverName(i, v)
    \/ \E i \in 1..Len(files) : Tick /\ removeFile(i)
    \/ Len(files) > 0 /\ Tick /\ clearFiles
    \/ \E v \in years \ {year} : Tick /\ setYear(v)
    \/ \E v \in months \ {month} : Tick /\ setMonth(v)
    \/ \E v \in days \ {day} : includeDay /\ Tick /\ setDay(v)
    \/ Tick /\ setIncludeDay(~includeDay)
    \/ \E v \in SenderInputs \ {senderName} :
          includeSender /\ Tick /\ setSenderName(v)
    \/ Tick /\ setIncludeSender(~includeSender)
    \/ Len(files) > 0 /\ Tick /\ downloadFiles
    \/ \E k \in 1..Len(pending) : events' = events /\ generateAsyncResolved(k)
    \/ \E k \in 1..Len(pending) : events' = events /\ generateAsyncRejected(k)

Spec == Init /\ [][Next]_vars

---------------------------------------------------------------------------
(* SpecNames: files of every name over NameAlphabet up to MaxNameLen are   *)
(* added, one per event, to a list of at most two entries.                 *)

NextNames ==
    \E f \in AnyFiles :
        Len(files) < 2 /\ events' = events /\ handleFiles(<<f>>)

SpecNames == Init /\ [][NextNames]_vars

(* SpecPrefix: one entry; its receiver and the sender range over every     *)
(* label over LabelAlphabet up to MaxLabelLen, the date configuration      *)
(* over all its values; then the entry is exported.                        *)

\* Not a UI event of the bounded session, and nothing follows the export.
Editing == downloads = Empty /\ events' = events

NextPrefix ==
    \/ files = Empty /\ Editing /\ handleFiles(<<FileA>>)
    \/ /\ files # Empty
       /\ \E v \in AnyLabels \ {files[1].receiverName} :
             Editing /\ updateReceiverName(1, v)
    \/ \E v \in years \ {year} : Editing /\ setYear(v)
    \/ \E v \in months \ {month} : Editing /\ setMonth(v)
    \/ \E v \in days \ {day} : includeDay /\ Editing /\ setDay(v)
    \/ Editing /\ setIncludeDay(~includeDay)
    \/ \E v \in AnyLabels \ {senderName} :
          includeSender /\ Editing /\ setSenderName(v)
    \/ Editing /\ setIncludeSender(~includeSender)
    \/ files # Empty /\ Editing /\ downloadFiles

SpecPrefix == Init /\ [][NextPrefix]_vars

---------------------------------------------------------------------------
(* Properties.                                                             *)

Range(f)      == {f[i] : i \in DOMAIN f}
LastOf(seq)   == seq[Len(seq)]
IsBlank(x)    == x # Empty /\ Range(x) \subseteq Whitespace
ZipFilename(s) == StrNamer_ \o buildPrefix(s, Empty) \o StrFilesZip

\* The names an export of the entries of scope s computes.
NamesOf(s)    == {newName(s, s.files[i]) : i \in 1..Len(s.files)}

\* The last entry of scope s that computes name n.
LastNamed(s, n) ==
    LET i == CHOOSE i \in 1..Len(s.files) :
                /\ newName(s, s.files[i]) = n
                /\ \A j \in (i + 1)..Len(s.files) : newName(s, s.files[j]) # n
    IN  s.files[i]

\* The invocation that the step's continuation belongs to.
Resumed(p) == \E k \in 1..Len(pending) : pending[k] = p /\ p.id = last'.arg

\* C1: while a downloadFiles invocation is suspended on zip.generateAsync,
\* no second invocation is started: at most one is ever suspended.
C1_SingleExportInProgress == Len(pending) <= 1

\* C2 as stated: when a multi-entry invocation resumes, it triggers exactly
\* one download, named namer_<buildPrefix()>files.zip, whose archive holds
\* one entry per input entry, each under its own final name with its own
\* File - also when several entries compute the same final name.
C2_OneArchiveEntryPerInput ==
    [][last'.op = "resolved" =>
        \E p \in Range(pending) :
            /\ Resumed(p)
            /\ Len(downloads') = Len(downloads) + 1
            /\ LET d == LastOf(downloads')
               IN  /\ d.inv = p.id /\ d.kind = "zip"
                   /\ d.filename = ZipFilename(p.scope)
                   /\ Cardinality(DOMAIN d.blob) = Len(p.scope.files)
                   /\ \A i \in 1..Len(p.scope.files) :
                        /\ newName(p.scope, p.scope.files[i]) \in DOMAIN d.blob
                        /\ d.blob[newName(p.scope, p.scope.files[i])]
                              = p.scope.files[i].original]_vars

\* C2 amended: when a multi-entry invocation resumes, it triggers exactly
\* one download, named namer_<buildPrefix()>files.zip, whose archive holds
\* exactly the distinct final names of the input entries, each with the
\* File of the last entry computing that name; no invocation downloads
\* twice.
C2_ArchiveLastWriteWins ==
    [][/\ last'.op = "resolved" =>
            \E p \in Range(pending) :
                /\ Resumed(p)
                /\ SubSeq(downloads', 1, Len(downloads)) = downloads
                /\ Len(downloads') = Len(downloads) + 1
                /\ LET d == LastOf(downloads')
                   IN  /\ d.inv = p.id /\ d.kind = "zip"
                       /\ d.filename = ZipFilename(p.scope)
                       /\ DOMAIN d.blob = NamesOf(p.scope)
                       /\ \A n \in NamesOf(p.scope) :
                            d.blob[n] = LastNamed(p.scope, n).original
       /\ \A a, b \in 1..Len(downloads') :
            downloads'[a].inv = downloads'[b].inv => a = b]_vars

\* Two entries of one export computed the same final name, and the archive
\* was downloaded.
C2_Witness ==
    /\ last.op = "resolved"
    /\ LastOf(downloads).kind = "zip"
    /\ DOMAIN LastOf(downloads).blob =
          {<<"2", "0", "2", "4", "_", "0", "3", "_", "a", ".", "b">>}
    /\ \A n \in DOMAIN LastOf(downloads).blob :
          LastOf(downloads).blob[n] = FileB

\* C3: with exactly one entry, downloadFiles triggers exactly one download:
\* the entry's original File, named buildPrefix(receiverName) + newBaseName
\* + extension; no archive is created and nothing is left suspended.
C3_SingleEntryDirect ==
    [][last'.op = "downloadFiles" /\ Len(files) = 1 =>
        /\ downloads' = Append(downloads,
              [inv |-> calls', kind |-> "file", blob |-> files[1].original,
               filename |-> buildPrefix(scope, files[1].receiverName)
                              \o files[1].newBaseName \o files[1].extension])
        /\ files[1].original \in FileObjs
        /\ pending' = pending]_vars

\* A single entry with a receiver was exported directly.
C3_Witness ==
    /\ last.op = "downloadFiles"
    /\ Len(files) = 1
    /\ trim(files[1].receiverName) # Empty
    /\ downloads # Empty
    /\ LastOf(downloads).kind = "file"
    /\ LastOf(downloads).inv = calls

\* x with the whitespace at both ends removed, stated without trim.
IsTrimOf(t, x) ==
    \E i, j \in 0..Len(x) :
        /\ i + j <= Len(x)
        /\ t = SubSeq(x, i + 1, Len(x) - j)
        /\ \A k \in 1..i : x[k] \in Whitespace
        /\ \A k \in (Len(x) - j + 1)..Len(x) : x[k] \in Whitespace
        /\ t = Empty \/ (t[1] \notin Whitespace /\ t[Len(t)] \notin Whitespace)

Trimmed(x) ==
    CHOOSE t \in {SubSeq(x, a, b) : a \in 1..(Len(x) + 1), b \in 0..Len(x)} :
        IsTrimOf(t, x)

Segment(x) == IF x # Empty THEN x \o Str_ ELSE Empty

ExpectedPrefix(r) ==
    Segment(Trimmed(r))
      \o year \o Str_ \o month \o Str_
      \o (IF includeDay THEN day \o Str_ ELSE Empty)
      \o (IF includeSender THEN Segment(Trimmed(senderName)) ELSE Empty)

\* C4: buildPrefix is, in this order, the trimmed receiver and "_" iff the
\* trimmed receiver is non-empty, year_month_ always, day_ iff includeDay,
\* the trimmed sender and "_" iff includeSender and the trimmed sender is
\* non-empty; a blank receiver gives what an empty one gives; without
\* receiver, day and sender the result is year_month_.  The exported
\* entry's file name starts with that prefix.
C4_PrefixSegments ==
    /\ \A r \in {Empty} \cup {files[i].receiverName : i \in 1..Len(files)} :
          /\ buildPrefix(scope, r) = ExpectedPrefix(r)
          /\ IsBlank(r) => buildPrefix(scope, r) = buildPrefix(scope, Empty)
    /\ ~includeDay /\ ~includeSender =>
          prefix(scope) = year \o Str_ \o month \o Str_
    /\ \A k \in 1..Len(downloads) :
          downloads[k].filename =
              ExpectedPrefix(files[1].receiverName)
                 \o files[1].newBaseName \o files[1].extension

\* An entry whose receiver is blank with a tab was exported with day and a
\* sender of one full-width space switched on.
C4_Witness ==
    /\ downloads # Empty
    /\ IsBlank(files[1].receiverName)
    /\ "\t" \in Range(files[1].receiverName)
    /\ includeDay
    /\ includeSender
    /\ senderName = <<"U+3000">>

\* C5: every entry in the list has the extension of its original file name
\* and the File it was created with, whatever was edited, removed or
\* exported since.
C5_ExtensionFixed ==
    \A i \in 1..Len(files) :
        /\ files[i].original \in FileObjs
        /\ files[i].extension = getExtension(files[i].original.name)

\* An entry of a file without extension was renamed to a name with a dot,
\* and an export has run.
C5_Witness ==
    /\ calls > 0
    /\ \E i \in 1..Len(files) :
          /\ files[i].original = FileB
          /\ "." \in Range(files[i].newBaseName)
          /\ files[i].extension = Empty

\* C6: no step of an export (the invocation, its resumption, its
\* rejection) changes the entry list or the date configuration.
C6_ExportReadOnly ==
    [][last'.op \in {"downloadFiles", "resolved", "rejected"} =>
        UNCHANGED <<files, dateVars>>]_vars

\* A multi-entry export has completed with the entries still in the list.
C6_Witness ==
    /\ last.op = "resolved"
    /\ Len(files) >= 2
    /\ downloads # Empty

\* C7: removeFile(index) removes the entry at index and nothing else: the
\* others keep their order, their fields and so their final names.
C7_RemoveExactlyOne ==
    [][last'.op = "removeFile" =>
        LET index == last'.arg
            old(j) == IF j < index THEN j ELSE j + 1
        IN  /\ index \in 1..Len(files)
            /\ Len(files') = Len(files) - 1
            /\ \A j \in 1..Len(files') :
                  /\ files'[j] = files[old(j)]
                  /\ newName(scope', files'[j]) = newName(scope, files[old(j)])
            /\ UNCHANGED dateVars]_vars

\* An entry was removed in front of others.
C7_Witness ==
    /\ last.op = "removeFile"
    /\ last.arg = 1
    /\ Len(files) = 2
    /\ files[1].original # files[2].original

\* C8: an added entry's extension is the part of the file name from its
\* last "." on (empty without "."), its newBaseName the part before it,
\* the two concatenate to the file name, and its receiverName is empty.
C8_BaseAndExtension ==
    \A i \in 1..Len(files) :
        LET e == files[i]
            f == e.original.name
        IN  /\ e.newBaseName = getBaseName(f)
            /\ e.extension = getExtension(f)
            /\ e.newBaseName \o e.extension = f
            /\ IF "." \in Range(f)
               THEN /\ e.extension # Empty
                    /\ Head(e.extension) = "."
                    /\ "." \notin Range(Tail(e.extension))
               ELSE e.extension = Empty
            /\ e.receiverName = Empty

\* Files named a.a.a and aaa were added.
C8_Witness ==
    /\ Len(files) = 2
    /\ files[1].original.name = <<"a", ".", "a", ".", "a">>
    /\ files[1].newBaseName = <<"a", ".", "a">>
    /\ files[1].extension = <<".", "a">>
    /\ files[2].original.name = <<"a", "a", "a">>
    /\ files[2].extension = Empty

\* C9: a rejected serialization ends its invocation: no download for it,
\* then or later, it is not suspended again, no new invocation is made,
\* and the entry list and date configuration stay as they are.
C9_RejectionPropagates ==
    [][/\ last'.op = "rejected" =>
            /\ \E p \in Range(pending) : Resumed(p) /\ p.id \in rejected'
            /\ Len(pending') = Len(pending) - 1
            /\ downloads' = downloads
            /\ UNCHANGED <<files, dateVars, calls>>
       /\ \A id \in rejected' :
            /\ \A k \in 1..Len(downloads') : downloads'[k].inv # id
            /\ \A k \in 1..Len(pending') : pending'[k].id # id]_vars

\* A serialization was rejected, entries are still listed.
C9_Witness ==
    /\ last.op = "rejected"
    /\ rejected # {}
    /\ Len(files) >= 2

\* C10: a suspended invocation keeps the scope and archive it was invoked
\* with through every other step, and when it resumes it downloads that
\* archive under the name built from that scope.
C10_ExportUsesInvocationState ==
    [][/\ \A k \in 1..Len(pending) :
            pending[k].zip = zipFiles(pending[k].scope, 1, newZip)
       /\ \A k \in 1..Len(pending) :
            pending[k].id # last'.arg \/ last'.op \notin {"resolved", "rejected"}
               => pending[k] \in Range(pending')
       /\ last'.op = "resolved" =>
            \E p \in Range(pending) :
                /\ Resumed(p)
                /\ LastOf(downloads').inv = p.id
                /\ LastOf(downloads').blob = zipFiles(p.scope, 1, newZip)
                /\ LastOf(downloads').filename = ZipFilename(p.scope)]_vars

\* An export completed after the entries and the date configuration had
\* changed under it.
C10_Witness ==
    /\ last.op = "resolved"
    /\ LastOf(downloads).kind = "zip"
    /\ LastOf(downloads).filename # ZipFilename(scope)
    /\ DOMAIN LastOf(downloads).blob # NamesOf(scope)
    /\ files # Empty

===========================================================================
